---- MODULE Spec2Model ----
(***************************************************************************)
(* Model of ml_cloud_tools/s3.py: bucket-name resolution, single-file and  *)
(* directory transfers between a local file system and S3 buckets, and the *)
(* paginated key listing.                                                  *)
(*                                                                         *)
(* Strings that the code handles as text (S3 keys, prefixes, path          *)
(* arguments) are sequences of one-character strings, so that the string   *)
(* prefix match done by S3 and the segment-wise operations done by pathlib *)
(* are different computations, as they are in the program.                 *)
(***************************************************************************)
EXTENDS Integers, Sequences, FiniteSets, TLC

\* ------------------------------------------------------------------ bounds
MaxObjects == 2
PageSize == 1

\* ------------------------------------------------------------- text values
None == "<None>"
DIR == "<DIR>"
ValueError == "ValueError"
ProviderError == "ProviderError"
OSError == "OSError"
KeyError == "KeyError"

Min(a, b) == IF a <= b THEN a ELSE b

CharOrd(c) ==
    CASE c = "." -> 46
      [] c = "/" -> 47
      [] c = "a" -> 97
      [] c = "b" -> 98
      [] c = "d" -> 100
      [] c = "e" -> 101
      [] c = "f" -> 102
      [] c = "g" -> 103
      [] c = "l" -> 108
      [] c = "n" -> 110
      [] c = "r" -> 114
      [] c = "x" -> 120
      [] c = "y" -> 121
      [] OTHER -> 122

\* str.startswith / the Prefix= match of S3: a comparison of characters
StartsWith(s, p) == Len(p) <= Len(s) /\ SubSeq(s, 1, Len(p)) = p

\* byte order of two strings (the order in which S3 lists keys)
RECURSIVE StrLess(_, _)
StrLess(s, t) ==
    IF s = <<>> THEN t # <<>>
    ELSE IF t = <<>> THEN FALSE
    ELSE IF s[1] = t[1] THEN StrLess(Tail(s), Tail(t))
    ELSE CharOrd(s[1]) < CharOrd(t[1])

RECURSIVE SortKeys(_)
SortKeys(S) ==
    IF S = {} THEN <<>>
    ELSE LET m == CHOOSE k \in S : \A o \in S \ {k} : StrLess(k, o)
         IN <<m>> \o SortKeys(S \ {m})

\* ---------------------------------------------------------------- pathlib
\* the segments of a string between separators, as pathlib keeps them:
\* empty segments and "." segments are dropped
RECURSIVE SplitSegs(_, _)
SplitSegs(s, cur) ==
    LET keep == IF cur = <<>> \/ cur = <<".">> THEN <<>> ELSE <<cur>>
    IN IF s = <<>> THEN keep
       ELSE IF s[1] = "/" THEN keep \o SplitSegs(Tail(s), <<>>)
       ELSE SplitSegs(Tail(s), Append(cur, s[1]))

\* Path(s): anchor and parts
Path(s) == [root |-> (s # <<>> /\ s[1] = "/"), parts |-> SplitSegs(s, <<>>)]

\* Path.name: the last part, "" when there is none
PathName(p) == IF p.parts = <<>> THEN <<>> ELSE p.parts[Len(p.parts)]

\* p / q
PathJoin(p, q) ==
    IF q.root THEN q ELSE [root |-> p.root, parts |-> p.parts \o q.parts]

RECURSIVE JoinSegs(_)
JoinSegs(ps) ==
    IF ps = <<>> THEN <<>>
    ELSE IF Len(ps) = 1 THEN ps[1]
    ELSE ps[1] \o <<"/">> \o JoinSegs(Tail(ps))

\* Path.as_posix()
as_posix(p) ==
    IF p.root THEN <<"/">> \o JoinSegs(p.parts)
    ELSE IF p.parts = <<>> THEN <<".">>
    ELSE JoinSegs(p.parts)

IsPartsPrefix(q, p) == Len(q) <= Len(p) /\ SubSeq(p, 1, Len(q)) = q

\* Path.relative_to: segment-wise; it raises ValueError (ok = FALSE) when q is
\* not an ancestor of p
relative_to(p, q) ==
    IF p.root = q.root /\ IsPartsPrefix(q.parts, p.parts)
    THEN [ok |-> TRUE,
          path |-> [root |-> FALSE,
                    parts |-> SubSeq(p.parts, Len(q.parts) + 1, Len(p.parts))]]
    ELSE [ok |-> FALSE, path |-> [root |-> FALSE, parts |-> <<>>]]

\* --------------------------------------------------------- local file system
\* a file system is a function from the parts of a path (relative to the
\* working directory) to DIR or to the content of a regular file
is_dir(f, parts) == parts = <<>> \/ (parts \in DOMAIN f /\ f[parts] = DIR)

is_file(f, parts) == parts \in DOMAIN f /\ f[parts] # DIR

Ancestors(parts) == {SubSeq(parts, 1, i) : i \in 1..(Len(parts) - 1)}

\* Path.mkdir(exist_ok=True, parents=True): it raises (ok = FALSE) when the
\* path or one of its ancestors is a regular file
mkdir(f, parts) ==
    IF \E a \in Ancestors(parts) \cup {parts} : is_file(f, a)
    THEN [ok |-> FALSE, fs |-> f]
    ELSE [ok |-> TRUE,
          fs |-> [q \in DOMAIN f \cup ((Ancestors(parts) \cup {parts}) \ {<<>>}) |->
                     IF q \in DOMAIN f THEN f[q] ELSE DIR]]

\* the local side of Bucket.download_file: (re)write a regular file
WriteFile(f, parts, content) ==
    IF parts = <<>> \/ is_dir(f, parts)
       \/ ~is_dir(f, SubSeq(parts, 1, Len(parts) - 1))
    THEN [ok |-> FALSE, fs |-> f]
    ELSE [ok |-> TRUE,
          fs |-> [q \in DOMAIN f \cup {parts} |-> IF q = parts THEN content ELSE f[q]]]

\* the ".." part of a path: pathlib keeps it, the operating system follows it
DotDot == <<".", ".">>

\* the place the operating system reaches for the parts of a path, walking
\* from cur: every part but the last must lead to a directory, and ".." leaves
\* the directory reached so far (ok = FALSE when the walk cannot go on)
RECURSIVE os_resolve(_, _, _)
os_resolve(f, parts, cur) ==
    IF parts = <<>> THEN [ok |-> TRUE, parts |-> cur]
    ELSE IF ~is_dir(f, cur) THEN [ok |-> FALSE, parts |-> cur]
    ELSE IF Head(parts) = DotDot
    THEN os_resolve(f, Tail(parts), SubSeq(cur, 1, Len(cur) - 1))
    ELSE os_resolve(f, Tail(parts), Append(cur, Head(parts)))

\* Path.mkdir(exist_ok=True, parents=True) on a path that may hold ".."
\* parts: the leading parts of the path are made one after the other, each
\* where the operating system resolves it; n leading parts are made already
RECURSIVE mkdir_parents(_, _, _)
mkdir_parents(f, parts, n) ==
    IF n >= Len(parts) THEN [ok |-> TRUE, fs |-> f]
    ELSE LET at == os_resolve(f, SubSeq(parts, 1, n + 1), <<>>)
             mk == mkdir(f, at.parts)
         IN IF ~at.ok \/ ~mk.ok THEN [ok |-> FALSE, fs |-> f]
            ELSE mkdir_parents(mk.fs, parts, n + 1)

\* as glob, for the pattern "*": the entries of the directory itself
glob_one_level(f, parts) ==
    {q \in DOMAIN f : Len(q) = Len(parts) + 1 /\ IsPartsPrefix(parts, q)}

\* Path.glob("**/*"): every entry below the directory, at any depth
glob(f, parts) ==
    {q \in DOMAIN f : Len(q) > Len(parts) /\ IsPartsPrefix(parts, q)}

\* ------------------------------------------------------------ object store
NoToken == -1

\* os.getenv("DEFAULT_S3_BUCKET_NAME") is read from the variable env
\* as _get_s3_bucket_name, with the environment value read first
_get_s3_bucket_name_env_first(s3_bucket_name, environ) ==
    LET name == IF environ = None THEN s3_bucket_name ELSE environ
    IN [ok |-> name # None, name |-> name]

\* _get_s3_bucket_name: the explicit argument, else the environment value,
\* else ValueError (ok = FALSE)
_get_s3_bucket_name(s3_bucket_name, environ) ==
    LET name == IF s3_bucket_name = None THEN environ ELSE s3_bucket_name
    IN [ok |-> name # None, name |-> name]

\* the client refuses a request whose Bucket parameter is no bucket name
\* before it sends anything
ValidBucketName(name) == name # None /\ name # ""

\* Bucket.objects.filter(Prefix=...): the keys that start with the prefix,
\* in listing order
ObjectsFilter(objects, prefix) ==
    SortKeys({k \in DOMAIN objects : StartsWith(k, prefix)})

\* S3.Client.list_objects_v2: one page of at most PageSize keys, starting
\* after the position that the continuation token stands for. The response
\* has no "Contents" entry when the page holds no key, and no
\* "NextContinuationToken" entry when it is not truncated.
list_objects_v2(objects, prefix, token) ==
    LET all == ObjectsFilter(objects, prefix)
        from == IF token = NoToken THEN 0 ELSE token
        upto == Min(from + PageSize, Len(all))
        page == SubSeq(all, from + 1, upto)
    IN [KeyCount |-> Len(page),
        HasContents |-> page # <<>>,
        Contents |-> page,
        IsTruncated |-> upto < Len(all),
        NextContinuationToken |-> IF upto < Len(all) THEN upto ELSE NoToken]

\* Bucket.upload_file / put: the object at key now holds content
PutObject(objects, key, content) ==
    [k \in DOMAIN objects \cup {key} |-> IF k = key THEN content ELSE objects[k]]


\* as download_file, with the provider's error for a missing key caught: the
\* transfer is reported as done and nothing is written
download_file_missing_ok(objects, key, f, parts) ==
    IF key \notin DOMAIN objects
    THEN [ok |-> TRUE, err |-> "ok", fs |-> f]
    ELSE LET wr == WriteFile(f, parts, objects[key])
         IN [ok |-> wr.ok, err |-> IF wr.ok THEN "ok" ELSE OSError, fs |-> wr.fs]

\* Bucket.download_file(key, local_path): the provider's error when the bucket
\* holds no such key (nothing is written), else the content is written
download_file(objects, key, f, parts) ==
    IF key \notin DOMAIN objects
    THEN [ok |-> FALSE, err |-> ProviderError, fs |-> f]
    ELSE LET wr == WriteFile(f, parts, objects[key])
         IN [ok |-> wr.ok, err |-> IF wr.ok THEN "ok" ELSE OSError, fs |-> wr.fs]

\* ------------------------------------------------------------------ inputs
K_axf == <<"a", "/", "x", "/", "f">>
K_ayf == <<"a", "/", "y", "/", "f">>
K_ax == <<"a", "/", "x">>
K_abf == <<"a", "b", "/", "f">>
K_axs == <<"a", "/", "x", "/">>

K_adf == <<"a", "/", ".", ".", "/", "f">>
K_axdf == <<"a", "/", "x", "/", ".", ".", "/", "f">>

KeyPool == {K_axf, K_ayf, K_ax, K_abf, K_axs}

\* what the object at each key of the pool holds at the start
ContentOf(k) == IF k \in {K_axf, K_ax} THEN "u" ELSE "v"

BucketInputs ==
    {[k \in S |-> ContentOf(k)] : S \in {T \in SUBSET KeyPool : Cardinality(T) <= MaxObjects}}

\* the local tree at the start: d holds files at two depths and an empty
\* sub-directory, e is empty, l holds an earlier download of a/x/f
FsInit ==
    LET d == <<"d">>
        e == <<"e">>
        l == <<"l">>
        a == <<"a">>
        x == <<"x">>
        y == <<"y">>
        f == <<"f">>
        g == <<"g">>
    IN (<<d>> :> DIR) @@ (<<d, x>> :> DIR) @@ (<<d, x, f>> :> "u")
       @@ (<<d, g>> :> "v") @@ (<<d, y>> :> DIR)
       @@ (<<e>> :> DIR)
       @@ (<<l>> :> DIR) @@ (<<l, a>> :> DIR) @@ (<<l, a, x>> :> DIR)
       @@ (<<l, a, x, f>> :> "w")

ArgBucketNames == {None, "", "xyz"}
EnvBucketNames == {None, "", "abc"}
Buckets == {"xyz", "abc"}

S3DirNames == {<<"a">>, K_ax, <<"a", "/">>, <<"r", "/", "d">>, <<"r">>, <<>>}
LocalDirNames ==
    {<<"d">>, <<"d", "/", "x">>, <<"e">>, <<"l">>, <<"l", "/", "a">>,
     <<"d", "/", "g">>, <<"n">>}
S3FileNames == {K_axf, K_ax}
LocalFileNames == {<<"l", "/", "a", "/", "x", "/", "f">>, <<"e", "/", "f">>, <<"d", "/", "g">>}

\* ------------------------------------------------------------------- state
VARIABLES
    env,        \* the value of DEFAULT_S3_BUCKET_NAME, None when unset
    store,      \* bucket name -> (key -> content)
    fs,         \* the local file system
    op,         \* the operation being called, "" before the first call
    args,       \* its arguments
    pc,         \* "idle", the loop the call is in, or "done"
    todo,       \* the entries the running loop has still to visit
    final,      \* final_local_dir_path / final_s3_dir_path
    bucket,     \* the bucket name the call resolved, None before that
    files,      \* list_s3_files: the keys gathered so far
    response,   \* list_s3_files: the last response of the provider
    status,     \* "" while the call runs, then "ok" or the error raised
    retval,     \* the value returned
    log,        \* the provider requests the call has made, in order
    pre,        \* fs and store as they were when the call started
    up          \* the last directory upload that returned normally

vars == <<env, store, fs, op, args, pc, todo, final, bucket, files, response,
          status, retval, log, pre, up>>

NoArgs ==
    [s3_name |-> <<>>, local_name |-> <<>>, s3_bucket_name |-> None, overwrite |-> TRUE]
NoPath == [root |-> FALSE, parts |-> <<>>]
NoResponse ==
    [KeyCount |-> 0, HasContents |-> FALSE, Contents |-> <<>>, IsTruncated |-> FALSE,
     NextContinuationToken |-> NoToken]
NoUpload ==
    [valid |-> FALSE, bucket |-> None, prefix |-> <<>>, tree |-> <<>>,
     clean |-> FALSE]

Event(ev, b, key, path, token) ==
    [ev |-> ev, bucket |-> b, key |-> key, path |-> path, token |-> token]

Init ==
    /\ env \in EnvBucketNames
    /\ \E objects \in BucketInputs :
         store = [b \in Buckets |-> IF b = "xyz" THEN objects ELSE <<>>]
    /\ fs = FsInit
    /\ op = ""
    /\ args = NoArgs
    /\ pc = "idle"
    /\ todo = <<>>
    /\ final = NoPath
    /\ bucket = None
    /\ files = <<>>
    /\ response = NoResponse
    /\ status = ""
    /\ retval = <<>>
    /\ log = <<>>
    /\ pre = [fs |-> FsInit, store |-> store]
    /\ up = NoUpload


\* the objects of the bucket a request names
ObjectsIn(st, name) == IF name \in Buckets THEN st[name] ELSE <<>>

Objects(name) == ObjectsIn(store, name)

\* what every call sets when it starts
Begin(name, a) ==
    /\ op' = name
    /\ args' = a
    /\ pre' = [fs |-> fs, store |-> store]
    /\ UNCHANGED env

\* a call that ends in its first step: raise err, or return v when err = "ok"
Finish(err, v) ==
    /\ pc' = "done"
    /\ status' = err
    /\ retval' = v
    /\ todo' = <<>>
    /\ files' = <<>>
    /\ response' = NoResponse

\* as SkipExisting, without the test of the overwrite flag
SkipExisting_whatever_overwrite(overwrite, f, parts) == is_file(f, parts)

\* the overwrite check of both download operations: skip a destination that
\* is a regular file already, unless overwrite is set
SkipExisting(overwrite, f, parts) == (~overwrite) /\ is_file(f, parts)

\* as IsLocalDir, with Path.exists() in place of Path.is_dir()
IsLocalDir_exists(f, local_dir_name) ==
    Path(local_dir_name).parts = <<>> \/ Path(local_dir_name).parts \in DOMAIN f

\* the argument check of both directory operations: local_dir_path.is_dir()
IsLocalDir(f, local_dir_name) == is_dir(f, Path(local_dir_name).parts)

\* a path made of one name; the empty name adds nothing
NamePath(n) == [root |-> FALSE, parts |-> IF n = <<>> THEN <<>> ELSE <<n>>]

\* --------------------------------------------------- copy_s3_file_to_file
copy_s3_file_to_file(s3_file_name, local_file_name, s3_bucket_name, overwrite) ==
    LET local == Path(local_file_name).parts
        res == _get_s3_bucket_name(s3_bucket_name, env)
        found == ValidBucketName(res.name) /\ s3_file_name \in DOMAIN Objects(res.name)
        wr == WriteFile(fs, local, Objects(res.name)[s3_file_name])
    IN /\ pc = "idle"
       /\ Begin("copy_s3_file_to_file",
                [s3_name |-> s3_file_name, local_name |-> local_file_name,
                 s3_bucket_name |-> s3_bucket_name, overwrite |-> overwrite])
       /\ final' = NoPath
       /\ UNCHANGED <<store, up>>
       /\ IF SkipExisting(overwrite, fs, local)
          THEN /\ Finish("ok", <<>>)
               /\ bucket' = None
               /\ log' = <<>>
               /\ UNCHANGED fs
          ELSE IF ~res.ok
          THEN /\ Finish(ValueError, <<>>)
               /\ bucket' = None
               /\ log' = <<>>
               /\ UNCHANGED fs
          ELSE /\ bucket' = res.name
               /\ IF ~ValidBucketName(res.name)
                  THEN /\ Finish(ProviderError, <<>>)
                       /\ log' = <<Event("resource", res.name, <<>>, <<>>, NoToken)>>
                       /\ UNCHANGED fs
                  ELSE /\ log' = <<Event("resource", res.name, <<>>, <<>>, NoToken),
                                  Event("download", res.name, s3_file_name, local, NoToken)>>
                       /\ IF ~found
                          THEN Finish(ProviderError, <<>>) /\ UNCHANGED fs
                          ELSE IF ~wr.ok
                          THEN Finish(OSError, <<>>) /\ UNCHANGED fs
                          ELSE Finish("ok", <<>>) /\ fs' = wr.fs

\* --------------------------------------------------- copy_file_to_s3_file
copy_file_to_s3_file(local_file_name, s3_file_name, s3_bucket_name) ==
    LET local == Path(local_file_name).parts
        res == _get_s3_bucket_name(s3_bucket_name, env)
    IN /\ pc = "idle"
       /\ Begin("copy_file_to_s3_file",
                [s3_name |-> s3_file_name, local_name |-> local_file_name,
                 s3_bucket_name |-> s3_bucket_name, overwrite |-> TRUE])
       /\ final' = NoPath
       /\ UNCHANGED <<fs, up>>
       /\ IF ~res.ok
          THEN /\ Finish(ValueError, <<>>)
               /\ bucket' = None
               /\ log' = <<>>
               /\ UNCHANGED store
          ELSE /\ bucket' = res.name
               /\ IF ~is_file(fs, local)
                  THEN /\ Finish(OSError, <<>>)
                       /\ log' = <<Event("resource", res.name, <<>>, <<>>, NoToken)>>
                       /\ UNCHANGED store
                  ELSE IF ~ValidBucketName(res.name)
                  THEN /\ Finish(ProviderError, <<>>)
                       /\ log' = <<Event("resource", res.name, <<>>, <<>>, NoToken)>>
                       /\ UNCHANGED store
                  ELSE /\ Finish("ok", <<>>)
                       /\ log' = <<Event("resource", res.name, <<>>, <<>>, NoToken),
                                  Event("upload", res.name, s3_file_name, local, NoToken)>>
                       /\ store' = [store EXCEPT ![res.name] =
                                       PutObject(@, s3_file_name, fs[local])]

\* ----------------------------------------------------- copy_s3_dir_to_dir
\* local_dir_path / Path(s3_dir_name).name
FinalLocalDir(local_dir_name, s3_dir_name) ==
    PathJoin(Path(local_dir_name), NamePath(PathName(Path(s3_dir_name))))

\* as IsDirMarker, for a loop without the test of the last character
IsDirMarker_never(key) == FALSE

\* obj.key[-1] == "/"
IsDirMarker(key) == key[Len(key)] = "/"

\* final_local_dir_path / Path(obj.key).relative_to(s3_dir_name)
LocalPathOf(dir, key, s3_dir_name) ==
    LET rel == relative_to(Path(key), Path(s3_dir_name))
    IN [ok |-> rel.ok, path |-> PathJoin(dir, rel.path)]

\* lines 131-138: the argument check, the bucket and the listing
S3DirStart(s3_dir_name, local_dir_name, s3_bucket_name, overwrite) ==
    LET local_dir_path == Path(local_dir_name)
        res == _get_s3_bucket_name(s3_bucket_name, env)
    IN /\ Begin("copy_s3_dir_to_dir",
                [s3_name |-> s3_dir_name, local_name |-> local_dir_name,
                 s3_bucket_name |-> s3_bucket_name, overwrite |-> overwrite])
       /\ UNCHANGED <<store, fs, up>>
       /\ files' = <<>>
       /\ response' = NoResponse
       /\ IF ~IsLocalDir(fs, local_dir_name)
          THEN /\ pc' = "done" /\ status' = ValueError /\ retval' = <<>>
               /\ todo' = <<>> /\ final' = NoPath /\ bucket' = None /\ log' = <<>>
          ELSE IF ~res.ok
          THEN /\ pc' = "done" /\ status' = ValueError /\ retval' = <<>>
               /\ todo' = <<>> /\ final' = NoPath /\ bucket' = None /\ log' = <<>>
          ELSE /\ bucket' = res.name
               /\ final' = FinalLocalDir(local_dir_name, s3_dir_name)
               /\ retval' = <<>>
               /\ IF ~ValidBucketName(res.name)
                  THEN /\ pc' = "done" /\ status' = ProviderError /\ todo' = <<>>
                       /\ log' = <<Event("resource", res.name, <<>>, <<>>, NoToken)>>
                  ELSE /\ pc' = "s3_dir_loop" /\ status' = ""
                       /\ todo' = ObjectsFilter(Objects(res.name), s3_dir_name)
                       /\ log' = <<Event("resource", res.name, <<>>, <<>>, NoToken),
                                  Event("filter", res.name, s3_dir_name, <<>>, NoToken)>>

copy_s3_dir_to_dir(s3_dir_name, local_dir_name, s3_bucket_name, overwrite) ==
    /\ pc = "idle"
    /\ S3DirStart(s3_dir_name, local_dir_name, s3_bucket_name, overwrite)

\* the same call made after copy_dir_to_s3_dir has returned, on the prefix it
\* returned and with the bucket argument it was given
copy_s3_dir_back(local_dir_name, overwrite) ==
    /\ pc = "done"
    /\ op = "copy_dir_to_s3_dir"
    /\ status = "ok"
    /\ S3DirStart(retval, local_dir_name, args.s3_bucket_name, overwrite)

\* lines 138-149: one turn of the loop over the listed objects
s3_dir_loop ==
    /\ pc = "s3_dir_loop"
    /\ todo # <<>>
    /\ LET key == Head(todo)
           lp == LocalPathOf(final, key, args.s3_name)
           local == lp.path.parts
           at == os_resolve(fs, local, <<>>)
           existing == IF at.ok THEN at.parts ELSE local
           mk == mkdir_parents(fs, SubSeq(local, 1, Len(local) - 1), 0)
           dest == os_resolve(mk.fs, local, <<>>)
           dl == download_file(Objects(bucket), key, mk.fs, dest.parts)
           raise(err, f, l) ==
               /\ pc' = "done" /\ status' = err /\ todo' = <<>> /\ fs' = f /\ log' = l
           download == Event("download", bucket, key, local, NoToken)
       IN IF IsDirMarker(key)
          THEN /\ todo' = Tail(todo)
               /\ UNCHANGED <<pc, status, fs, log>>
          ELSE IF ~lp.ok
          THEN raise(ValueError, fs, log)
          ELSE IF SkipExisting(args.overwrite, fs, existing)
          THEN /\ todo' = Tail(todo)
               /\ UNCHANGED <<pc, status, fs, log>>
          ELSE IF local = <<>> \/ ~mk.ok
          THEN raise(OSError, mk.fs, log)
          ELSE IF ~dest.ok
          THEN raise(OSError, mk.fs, Append(log, download))
          ELSE IF ~dl.ok
          THEN raise(dl.err, mk.fs, Append(log, download))
          ELSE /\ todo' = Tail(todo)
               /\ fs' = dl.fs
               /\ log' = Append(log, download)
               /\ UNCHANGED <<pc, status>>
    /\ UNCHANGED <<env, store, op, args, final, bucket, files, response, retval,
                   pre, up>>

\* line 150
s3_dir_return ==
    /\ pc = "s3_dir_loop"
    /\ todo = <<>>
    /\ pc' = "done"
    /\ status' = "ok"
    /\ retval' = as_posix(final)
    /\ UNCHANGED <<env, store, fs, op, args, todo, final, bucket, files, response,
                   log, pre, up>>

\* ----------------------------------------------------- copy_dir_to_s3_dir
\* Path(s3_dir_name) / local_dir_path.name
FinalS3Dir(s3_dir_name, local_dir_name) ==
    PathJoin(Path(s3_dir_name), NamePath(PathName(Path(local_dir_name))))

\* as S3FilePath, with file_path.name in place of the relative path
S3FilePath_name_only(dir, file_parts, local_dir_parts) ==
    as_posix(PathJoin(dir, NamePath(file_parts[Len(file_parts)])))

\* final_s3_dir_path / file_path.relative_to(local_dir_path), as a key
S3FilePath(dir, file_parts, local_dir_parts) ==
    as_posix(PathJoin(dir, relative_to([root |-> FALSE, parts |-> file_parts],
                                       [root |-> FALSE, parts |-> local_dir_parts]).path))

\* local_dir_path.glob("**/*"): the order is that of the directory scan, which
\* the program does not choose; it is taken to be the order of the paths, so
\* that a directory comes before its entries
GlobEntries(f, local_dir_parts) ==
    LET found == glob(f, local_dir_parts)
        keyOf == [q \in found |-> JoinSegs(q)]
        sorted == SortKeys({keyOf[q] : q \in found})
    IN [i \in 1..Len(sorted) |-> CHOOSE q \in found : keyOf[q] = sorted[i]]

\* lines 180-190: the argument check, the bucket and the enumeration
copy_dir_to_s3_dir(local_dir_name, s3_dir_name, s3_bucket_name) ==
    LET local_dir_path == Path(local_dir_name)
        res == _get_s3_bucket_name(s3_bucket_name, env)
    IN /\ pc = "idle"
       /\ Begin("copy_dir_to_s3_dir",
                [s3_name |-> s3_dir_name, local_name |-> local_dir_name,
                 s3_bucket_name |-> s3_bucket_name, overwrite |-> TRUE])
       /\ UNCHANGED <<store, fs, up>>
       /\ files' = <<>>
       /\ response' = NoResponse
       /\ retval' = <<>>
       /\ IF ~IsLocalDir(fs, local_dir_name)
          THEN /\ pc' = "done" /\ status' = ValueError
               /\ todo' = <<>> /\ final' = NoPath /\ bucket' = None /\ log' = <<>>
          ELSE IF ~res.ok
          THEN /\ pc' = "done" /\ status' = ValueError
               /\ todo' = <<>> /\ final' = NoPath /\ bucket' = None /\ log' = <<>>
          ELSE /\ bucket' = res.name
               /\ final' = FinalS3Dir(s3_dir_name, local_dir_name)
               /\ pc' = "dir_s3_loop" /\ status' = ""
               /\ todo' = GlobEntries(fs, local_dir_path.parts)
               /\ log' = <<Event("resource", res.name, <<>>, <<>>, NoToken)>>

\* lines 190-198: one turn of the loop over the entries of the directory
dir_s3_loop ==
    /\ pc = "dir_s3_loop"
    /\ todo # <<>>
    /\   LET file_path == Head(todo)
             key == S3FilePath(final, file_path, Path(args.local_name).parts)
         IN IF is_dir(fs, file_path)
            THEN /\ todo' = Tail(todo)
                 /\ UNCHANGED <<pc, status, store, log>>
            ELSE IF ~ValidBucketName(bucket)
            THEN /\ pc' = "done" /\ status' = ProviderError /\ todo' = <<>>
                 /\ UNCHANGED <<store, log>>
            ELSE /\ todo' = Tail(todo)
                 /\ store' = [store EXCEPT ![bucket] = PutObject(@, key, fs[file_path])]
                 /\ log' = Append(log, Event("upload", bucket, key, file_path, NoToken))
                 /\ UNCHANGED <<pc, status>>
    /\ UNCHANGED <<env, fs, op, args, final, bucket, files, response, retval,
                   pre, up>>

\* as dir_s3_fail, with the error caught in the loop and the loop going on
dir_s3_fail_caught ==
    /\ pc = "dir_s3_loop"
    /\ todo # <<>>
    /\ ~is_dir(fs, Head(todo))
    /\ ValidBucketName(bucket)
    /\ LET file_path == Head(todo)
           key == S3FilePath(final, file_path, Path(args.local_name).parts)
       IN log' = Append(log, Event("upload_failed", bucket, key, file_path, NoToken))
    /\ todo' = Tail(todo)
    /\ UNCHANGED <<env, store, fs, op, args, pc, status, final, bucket, files,
                   response, retval, pre, up>>

\* line 198 when Bucket.upload_file raises: the error leaves the loop and the
\* function; nothing is caught
dir_s3_fail ==
    /\ pc = "dir_s3_loop"
    /\ todo # <<>>
    /\ ~is_dir(fs, Head(todo))
    /\ ValidBucketName(bucket)
    /\ LET file_path == Head(todo)
           key == S3FilePath(final, file_path, Path(args.local_name).parts)
       IN log' = Append(log, Event("upload_failed", bucket, key, file_path, NoToken))
    /\ pc' = "done"
    /\ status' = ProviderError
    /\ todo' = <<>>
    /\ UNCHANGED <<env, store, fs, op, args, final, bucket, files, response, retval,
                   pre, up>>

\* the files of a directory, by their path relative to it
TreeOf(f, dir_parts) ==
    LET found == {q \in glob(f, dir_parts) : is_file(f, q)}
        rels == {SubSeq(q, Len(dir_parts) + 1, Len(q)) : q \in found}
    IN [r \in rels |-> f[dir_parts \o r]]

\* line 199
dir_s3_return ==
    /\ pc = "dir_s3_loop"
    /\ todo = <<>>
    /\ pc' = "done"
    /\ status' = "ok"
    /\ retval' = as_posix(final)
    /\ up' = [valid |-> TRUE, bucket |-> bucket, prefix |-> as_posix(final),
              tree |-> TreeOf(fs, Path(args.local_name).parts),
              clean |-> \A k \in DOMAIN ObjectsIn(pre.store, bucket) :
                          ~StartsWith(k, as_posix(final))]
    /\ UNCHANGED <<env, store, fs, op, args, todo, final, bucket, files, response,
                   log, pre>>

\* ---------------------------------------------------------- list_s3_files
\* as IsEmptyListing, for a function that has no early return
IsEmptyListing_never(resp) == FALSE

\* response["KeyCount"] == 0
IsEmptyListing(resp) == resp.KeyCount = 0

\* as Extend, with the list assigned instead of extended
Extend_assigns(list, contents) == contents

\* files.extend(key_dict["Key"] for key_dict in response["Contents"])
Extend(list, contents) == list \o contents

\* as NextContinuationToken, read with a default instead of a subscript: a
\* response without the entry gives the token of a first request
NextContinuationToken_or_default(resp) ==
    [ok |-> TRUE, token |-> resp.NextContinuationToken]

\* response["NextContinuationToken"]: KeyError (ok = FALSE) when the response
\* has no such entry
NextContinuationToken(resp) ==
    [ok |-> resp.NextContinuationToken # NoToken, token |-> resp.NextContinuationToken]

\* lines 221-228: the first request
list_s3_files(s3_dir_name, s3_bucket_name) ==
    LET res == _get_s3_bucket_name(s3_bucket_name, env)
        first == list_objects_v2(Objects(res.name), s3_dir_name, NoToken)
    IN /\ pc = "idle"
       /\ Begin("list_s3_files",
                [s3_name |-> s3_dir_name, local_name |-> <<>>,
                 s3_bucket_name |-> s3_bucket_name, overwrite |-> TRUE])
       /\ UNCHANGED <<store, fs, up>>
       /\ final' = NoPath
       /\ todo' = <<>>
       /\ retval' = <<>>
       /\ IF ~res.ok
          THEN /\ pc' = "done" /\ status' = ValueError /\ bucket' = None
               /\ log' = <<>> /\ files' = <<>> /\ response' = NoResponse
          ELSE /\ bucket' = res.name
               /\ IF ~ValidBucketName(res.name)
                  THEN /\ pc' = "done" /\ status' = ProviderError
                       /\ log' = <<Event("client", res.name, <<>>, <<>>, NoToken)>>
                       /\ files' = <<>> /\ response' = NoResponse
                  ELSE /\ log' = <<Event("client", res.name, <<>>, <<>>, NoToken),
                                  Event("list", res.name, s3_dir_name, <<>>, NoToken)>>
                       /\ response' = first
                       /\ IF IsEmptyListing(first)
                          THEN pc' = "done" /\ status' = "ok" /\ files' = <<>>
                          ELSE IF ~first.HasContents
                          THEN pc' = "done" /\ status' = KeyError /\ files' = <<>>
                          ELSE pc' = "list_loop" /\ status' = "" /\ files' = first.Contents

\* lines 229-238: one more page
list_loop ==
    /\ pc = "list_loop"
    /\ response.IsTruncated
    /\ LET read == NextContinuationToken(response)
           continuation_token == read.token
           next == list_objects_v2(Objects(bucket), args.s3_name, continuation_token)
       IN IF ~read.ok
          THEN /\ pc' = "done" /\ status' = KeyError
               /\ UNCHANGED <<response, log, files>>
          ELSE /\ response' = next
               /\ log' = Append(log, Event("list", bucket, args.s3_name, <<>>,
                                           continuation_token))
               /\ IF ~next.HasContents
                  THEN pc' = "done" /\ status' = KeyError /\ files' = files
                  ELSE files' = Extend(files, next.Contents) /\ UNCHANGED <<pc, status>>
    /\ UNCHANGED <<env, store, fs, op, args, todo, final, bucket, retval, pre, up>>

\* line 239
list_return ==
    /\ pc = "list_loop"
    /\ ~response.IsTruncated
    /\ pc' = "done"
    /\ status' = "ok"
    /\ retval' = files
    /\ UNCHANGED <<env, store, fs, op, args, todo, final, bucket, files, response,
                   log, pre, up>>

\* ------------------------------------------------------------ specification
Next ==
    \/ \E k \in S3FileNames, l \in LocalFileNames, b \in ArgBucketNames, o \in BOOLEAN :
         copy_s3_file_to_file(k, l, b, o)
    \/ \E l \in LocalFileNames, k \in S3FileNames, b \in ArgBucketNames :
         copy_file_to_s3_file(l, k, b)
    \/ \E p \in S3DirNames, l \in LocalDirNames, b \in ArgBucketNames, o \in BOOLEAN :
         copy_s3_dir_to_dir(p, l, b, o)
    \/ \E l \in LocalDirNames, o \in BOOLEAN : copy_s3_dir_back(l, o)
    \/ s3_dir_loop
    \/ s3_dir_return
    \/ \E l \in LocalDirNames, p \in S3DirNames, b \in ArgBucketNames :
         copy_dir_to_s3_dir(l, p, b)
    \/ dir_s3_loop
    \/ dir_s3_return
    \/ \E p \in S3DirNames, b \in ArgBucketNames : list_s3_files(p, b)
    \/ list_loop
    \/ list_return

Spec == Init /\ [][Next]_vars

\* the same program with a provider whose uploads may fail
NextFail == Next \/ dir_s3_fail

SpecFail == Init /\ [][NextFail]_vars

\* another actor deletes an object the listing returned while the download
\* loop of copy_s3_dir_to_dir runs, before the loop has reached its key
other_actor_deletes(key) ==
    /\ pc = "s3_dir_loop"
    /\ \E i \in 1..Len(todo) : todo[i] = key
    /\ key \in DOMAIN Objects(bucket)
    /\ store' = [store EXCEPT ![bucket] =
                   [k \in DOMAIN store[bucket] \ {key} |-> store[bucket][k]]]
    /\ UNCHANGED <<env, fs, op, args, pc, todo, final, bucket, files, response,
                   status, retval, log, pre, up>>

\* the same program with a bucket that another actor changes during a download
NextRace == Next \/ \E key \in KeyPool : other_actor_deletes(key)

SpecRace == Init /\ [][NextRace]_vars

\* copy_s3_dir_to_dir alone, on buckets that may also hold keys with ".."
\* segments (S3 takes any string as a key)
DotDotKeyPool == KeyPool \cup {K_adf, K_axdf}

DotDotBucketInputs ==
    {[k \in S |-> ContentOf(k)] :
        S \in {T \in SUBSET DotDotKeyPool : Cardinality(T) <= MaxObjects}}

InitDotDot ==
    /\ env = None
    /\ \E objects \in DotDotBucketInputs :
         store = [b \in Buckets |-> IF b = "xyz" THEN objects ELSE <<>>]
    /\ fs = FsInit
    /\ op = ""
    /\ args = NoArgs
    /\ pc = "idle"
    /\ todo = <<>>
    /\ final = NoPath
    /\ bucket = None
    /\ files = <<>>
    /\ response = NoResponse
    /\ status = ""
    /\ retval = <<>>
    /\ log = <<>>
    /\ pre = [fs |-> FsInit, store |-> store]
    /\ up = NoUpload

NextDotDot ==
    \/ \E p \in S3DirNames, l \in LocalDirNames, b \in ArgBucketNames, o \in BOOLEAN :
         copy_s3_dir_to_dir(p, l, b, o)
    \/ s3_dir_loop
    \/ s3_dir_return

SpecDotDot == InitDotDot /\ [][NextDotDot]_vars

\* list_s3_files alone, on buckets of any size over the key pool and with
\* DEFAULT_S3_BUCKET_NAME unset, with a provider that may leave the token out
\* of a response it marks as truncated
ListBucketInputs == {[k \in S |-> ContentOf(k)] : S \in SUBSET KeyPool}

InitList ==
    /\ env = None
    /\ \E objects \in ListBucketInputs :
         store = [b \in Buckets |-> IF b = "xyz" THEN objects ELSE <<>>]
    /\ fs = FsInit
    /\ op = ""
    /\ args = NoArgs
    /\ pc = "idle"
    /\ todo = <<>>
    /\ final = NoPath
    /\ bucket = None
    /\ files = <<>>
    /\ response = NoResponse
    /\ status = ""
    /\ retval = <<>>
    /\ log = <<>>
    /\ pre = [fs |-> FsInit, store |-> store]
    /\ up = NoUpload

\* the response the loop is about to read says IsTruncated and has no
\* NextContinuationToken entry
provider_omits_token ==
    /\ pc = "list_loop"
    /\ response.IsTruncated
    /\ response.NextContinuationToken # NoToken
    /\ response' = [response EXCEPT !.NextContinuationToken = NoToken]
    /\ UNCHANGED <<env, store, fs, op, args, pc, todo, final, bucket, files, status,
                   retval, log, pre, up>>

NextList ==
    \/ \E p \in S3DirNames, b \in ArgBucketNames : list_s3_files(p, b)
    \/ list_loop
    \/ list_return
    \/ provider_omits_token

\* the function runs on once called: a loop turn or the return that is possible
\* is taken
SpecList ==
    InitList /\ [][NextList]_vars /\ WF_vars(list_loop) /\ WF_vars(list_return)

\* ------------------------------------------------------------------ claims
Called(name) == op = name /\ pc = "done"

\* the events of one kind in the log of the call
Events(ev) == {i \in 1..Len(log) : log[i].ev = ev}

\* the keys of a bucket that start with a prefix and are no directory marker
ObjectKeys(objects, prefix) ==
    {k \in DOMAIN objects : StartsWith(k, prefix) /\ k[Len(k)] # "/"}

\* the part of a key after a prefix it starts with, as path segments
AfterPrefix(k, prefix) == SplitSegs(SubSeq(k, Len(prefix) + 1, Len(k)), <<>>)

\* L/last_segment(P)/(key relative to P), as the parts of a local path
ExpectedLocal(local_dir_name, prefix, k) ==
    SplitSegs(local_dir_name, <<>>)
        \o NamePath(PathName(Path(prefix))).parts
        \o AfterPrefix(k, prefix)

\* no object of the set is stored where another one needs a directory
NoClash(keys) ==
    \A k1 \in keys : \A k2 \in keys \ {k1} :
        ~IsPartsPrefix(Path(k1).parts, Path(k2).parts)

\* C1: for any bucket contents, prefix P and existing local directory L,
\* copy_s3_dir_to_dir(P, L, overwrite=True) returns L/last_segment(P) without
\* error, and every object whose key starts with the string P and does not
\* end in "/" is then a local file at L/last_segment(P)/(key relative to P)
\* with the object's content. Stated here for a bucket name that names a
\* bucket, a destination directory with nothing in it and objects that do not
\* need one path both as a file and as a directory, the cases in which no
\* file system could refuse the copy.
C1_CopiesEveryObjectUnderPrefix ==
    (/\ Called("copy_s3_dir_to_dir")
     /\ args.overwrite
     /\ IsLocalDir(pre.fs, args.local_name)
     /\ glob(pre.fs, Path(args.local_name).parts) = {}
     /\ ValidBucketName(bucket)
     /\ NoClash(ObjectKeys(ObjectsIn(pre.store, bucket), args.s3_name)))
    => /\ status = "ok"
       /\ Path(retval).parts
            = SplitSegs(args.local_name, <<>>) \o NamePath(PathName(Path(args.s3_name))).parts
       /\ \A k \in ObjectKeys(ObjectsIn(pre.store, bucket), args.s3_name) :
            LET dest == ExpectedLocal(args.local_name, args.s3_name, k)
            IN is_file(fs, dest) /\ fs[dest] = ObjectsIn(pre.store, bucket)[k]

\* the regular files under a local directory, as full paths
FilesUnder(f, local_dir_name) ==
    LET d == SplitSegs(local_dir_name, <<>>)
    IN {q \in DOMAIN f : f[q] # DIR /\ Len(q) > Len(d) /\ SubSeq(q, 1, Len(d)) = d}

\* y/x/(path of a file relative to D), as path segments
ExpectedKeyParts(s3_dir_name, local_dir_name, file_parts) ==
    LET d == SplitSegs(local_dir_name, <<>>)
    IN SplitSegs(s3_dir_name, <<>>) \o <<d[Len(d)]>>
           \o SubSeq(file_parts, Len(d) + 1, Len(file_parts))

UploadedKeys == {log[i].key : i \in Events("upload")}

\* C2: copy_dir_to_s3_dir(D, y) on an existing directory D with last segment
\* x returns the prefix y/x, and the keys it wrote are exactly the keys
\* y/x/(path of f relative to D) of the regular files f under D, at any
\* depth, each holding the content of f; no key is written for a
\* sub-directory, and y/x is returned also when D holds no file.
C2_UploadsEveryFileUnderPrefix ==
    (Called("copy_dir_to_s3_dir") /\ status = "ok")
    => LET found == FilesUnder(pre.fs, args.local_name)
           want == [q \in found |->
                      JoinSegs(ExpectedKeyParts(args.s3_name, args.local_name, q))]
           d == SplitSegs(args.local_name, <<>>)
       IN /\ retval = JoinSegs(SplitSegs(args.s3_name, <<>>) \o <<d[Len(d)]>>)
          /\ UploadedKeys = {want[q] : q \in found}
          /\ Cardinality(Events("upload")) = Cardinality(found)
          /\ \A q \in found :
               /\ want[q] \in DOMAIN Objects(bucket)
               /\ Objects(bucket)[want[q]] = pre.fs[q]

\* C2 witness: a directory with files at two depths and an empty
\* sub-directory has been uploaded
C2_Witness ==
    /\ Called("copy_dir_to_s3_dir")
    /\ status = "ok"
    /\ Cardinality(UploadedKeys) = 2
    /\ \E q \in glob(pre.fs, Path(args.local_name).parts) :
         is_dir(pre.fs, q) /\ glob(pre.fs, q) = {}
    /\ \E k \in UploadedKeys : Len(Path(k).parts) = Len(Path(retval).parts) + 2

\* a download that follows an upload, from the prefix the upload returned and
\* into a directory that holds nothing
RoundTrip ==
    /\ Called("copy_s3_dir_to_dir")
    /\ up.valid
    /\ ValidBucketName(up.bucket)
    /\ bucket = up.bucket
    /\ args.s3_name = up.prefix
    /\ IsLocalDir(pre.fs, args.local_name)
    /\ glob(pre.fs, Path(args.local_name).parts) = {}

\* every key that starts with the prefix lies under it as a path, and no
\* object is stored where another one needs a directory
PlainListing ==
    /\ \A k \in ObjectKeys(ObjectsIn(pre.store, bucket), args.s3_name) :
         relative_to(Path(k), Path(args.s3_name)).ok
    /\ NoClash(ObjectKeys(ObjectsIn(pre.store, bucket), args.s3_name))

SameTreeBack ==
    /\ status = "ok"
    /\ TreeOf(fs, Path(retval).parts) = up.tree

\* C3 as stated: uploading any directory D to any bucket and downloading the
\* returned prefix into a fresh empty directory gives, under the returned
\* local directory, exactly the relative file paths of D with their contents.
\* Stated here for the buckets whose listing of the prefix can be copied
\* without error.
C3_RoundTripAnyBucket == (RoundTrip /\ PlainListing) => SameTreeBack

\* C3 amended: the same, for a bucket that held no key starting with the
\* returned prefix before the upload
C3_RoundTripUnusedPrefix == (RoundTrip /\ up.clean) => SameTreeBack

\* C3 witness: a tree with files at two depths has come back
C3_Witness ==
    /\ RoundTrip
    /\ up.clean
    /\ Cardinality(DOMAIN up.tree) = 2
    /\ \E r \in DOMAIN up.tree : Len(r) = 2
    /\ SameTreeBack

\* the keys of the bucket that a listing of the prefix has to return
Matching(objects, prefix) == {k \in DOMAIN objects : StartsWith(k, prefix)}

\* C4: when the provider splits a listing over two or more pages,
\* list_s3_files returns every key of every page, no key twice, in the
\* provider's order
C4_ListSpansAllPages ==
    (Called("list_s3_files") /\ status = "ok" /\ Cardinality(Events("list")) >= 2)
    => /\ {retval[i] : i \in 1..Len(retval)} = Matching(Objects(bucket), args.s3_name)
       /\ \A i, j \in 1..Len(retval) : i < j => StrLess(retval[i], retval[j])

\* C4 witness: a listing of two pages or more has returned
C4_Witness ==
    /\ Called("list_s3_files")
    /\ status = "ok"
    /\ Cardinality(Events("list")) >= 2
    /\ Len(retval) >= 2

\* the listed objects of a directory download whose destination was a
\* regular file when the call started, with that destination
ExistingDest(k) ==
    is_file(pre.fs, ExpectedLocal(args.local_name, args.s3_name, k))

Listed ==
    {k \in ObjectKeys(ObjectsIn(pre.store, bucket), args.s3_name) :
        relative_to(Path(k), Path(args.s3_name)).ok}

\* the state part of C5, at the end of a call and, for the directory
\* download, all along it
OverwritePolicy ==
    /\ (Called("copy_s3_file_to_file") /\ is_file(pre.fs, Path(args.local_name).parts))
       => LET dest == Path(args.local_name).parts
          IN IF ~args.overwrite
             THEN status = "ok" /\ fs = pre.fs
             ELSE (ValidBucketName(bucket) /\ args.s3_name \in DOMAIN Objects(bucket))
                  => (status = "ok" /\ fs[dest] = Objects(bucket)[args.s3_name])
    /\ (op = "copy_s3_dir_to_dir" /\ ValidBucketName(bucket)
        /\ IsLocalDir(pre.fs, args.local_name))
       => IF ~args.overwrite
          THEN /\ \A k \in Listed :
                    ExistingDest(k)
                    => LET dest == ExpectedLocal(args.local_name, args.s3_name, k)
                       IN is_file(fs, dest) /\ fs[dest] = pre.fs[dest]
               /\ (\A k \in Matching(ObjectsIn(pre.store, bucket), args.s3_name) :
                      k[Len(k)] = "/" \/ (k \in Listed /\ ExistingDest(k)))
                  => (status # "" => status = "ok") /\ fs = pre.fs
          ELSE (pc = "done" /\ status = "ok")
               => \A k \in Listed :
                    ExistingDest(k)
                    => LET dest == ExpectedLocal(args.local_name, args.s3_name, k)
                       IN fs[dest] = Objects(bucket)[k]

\* the step part of C5: the turn of the loop of copy_s3_dir_to_dir on an
\* object whose destination is a regular file, with overwrite False, raises
\* nothing, changes no file and goes on to the next object
SkipRaisesNothing ==
    (/\ pc = "s3_dir_loop"
     /\ todo # <<>>
     /\ ~args.overwrite
     /\ Head(todo) \in Listed
     /\ is_file(fs, ExpectedLocal(args.local_name, args.s3_name, Head(todo))))
    => /\ pc' = pc
       /\ status' = status
       /\ fs' = fs
       /\ log' = log
       /\ todo' = Tail(todo)

\* C5: in copy_s3_file_to_file and in copy_s3_dir_to_dir, a destination that
\* is a regular file already is left as it is and is no error when overwrite
\* is False, and holds the content of the remote object after the call when
\* overwrite is True
C5_OverwritePolicy == []OverwritePolicy /\ [][SkipRaisesNothing]_vars

\* C5 witness: a directory download without overwrite has returned and has
\* left an earlier file with its own content, which differs from the object's
C5_Witness ==
    /\ Called("copy_s3_dir_to_dir")
    /\ status = "ok"
    /\ ~args.overwrite
    /\ \E k \in Listed :
         /\ ExistingDest(k)
         /\ fs[ExpectedLocal(args.local_name, args.s3_name, k)] # Objects(bucket)[k]

\* the variable bucket holds what _get_s3_bucket_name returned, and None when
\* it raised or was not called.
\* The call has gone through the resolution of the bucket name: every
\* operation does so first, but the directory operations check their local
\* directory before, and copy_s3_file_to_file skips an existing file before
ResolvesName ==
    /\ op # ""
    /\ op \in {"copy_s3_dir_to_dir", "copy_dir_to_s3_dir"}
       => IsLocalDir(pre.fs, args.local_name)
    /\ op = "copy_s3_file_to_file"
       => (args.overwrite \/ ~is_file(pre.fs, Path(args.local_name).parts))

\* C6: _get_s3_bucket_name returns an explicit argument whether or not
\* DEFAULT_S3_BUCKET_NAME is set, returns the environment value when no
\* argument is given and the variable is set, and raises ValueError when
\* neither is there
C6_BucketNameResolution ==
    ResolvesName
    => /\ args.s3_bucket_name # None => bucket = args.s3_bucket_name
       /\ (args.s3_bucket_name = None /\ env # None) => bucket = env
       /\ (args.s3_bucket_name = None /\ env = None)
          => (bucket = None /\ status = ValueError /\ pc = "done" /\ log = <<>>)

\* C6 witness: a call given an argument while the variable names another
\* bucket has resolved the argument
C6_Witness ==
    /\ Called("list_s3_files")
    /\ args.s3_bucket_name = "xyz"
    /\ env = "abc"
    /\ bucket = "xyz"
    /\ status = "ok"

\* C7: copy_s3_dir_to_dir and copy_dir_to_s3_dir given a local directory
\* argument that does not exist or is not a directory raise ValueError before
\* any network access: no client is made, nothing is listed, downloaded or
\* uploaded, and neither the file system nor the bucket changes
C7_LocalDirCheckedFirst ==
    (/\ op \in {"copy_s3_dir_to_dir", "copy_dir_to_s3_dir"}
     /\ ~is_dir(pre.fs, SplitSegs(args.local_name, <<>>)))
    => /\ pc = "done"
       /\ status = ValueError
       /\ log = <<>>
       /\ fs = pre.fs
       /\ store = pre.store

\* C7 witness: a directory upload has been given the path of a regular file,
\* with a bucket name that resolves
C7_Witness ==
    /\ Called("copy_dir_to_s3_dir")
    /\ is_file(pre.fs, SplitSegs(args.local_name, <<>>))
    /\ args.s3_bucket_name = "xyz"
    /\ status = ValueError

NoNameResolvable ==
    /\ args.s3_bucket_name \in {None, ""}
    /\ env \in {None, ""}

\* C8: every public operation, whatever its other arguments, fails when no
\* non-empty bucket name can be resolved from the parameter or the
\* environment, and fails before any provider or file-transfer I/O
C8_FailsWithoutBucketName ==
    (op # "" /\ pc = "done" /\ NoNameResolvable)
    => /\ status \notin {"", "ok"}
       /\ \A i \in 1..Len(log) : log[i].ev \in {"client", "resource"}
       /\ fs = pre.fs
       /\ store = pre.store

\* C9: list_s3_files over a prefix that matches no object returns an empty
\* list without raising and without a further listing request
C9_EmptyListing ==
    (/\ Called("list_s3_files")
     /\ ValidBucketName(bucket)
     /\ Matching(ObjectsIn(pre.store, bucket), args.s3_name) = {})
    => /\ status = "ok"
       /\ retval = <<>>
       /\ Cardinality(Events("list")) = 1

\* C9 witness: a prefix that matches nothing has been listed in a bucket that
\* holds objects
C9_Witness ==
    /\ Called("list_s3_files")
    /\ ValidBucketName(bucket)
    /\ Matching(ObjectsIn(pre.store, bucket), args.s3_name) = {}
    /\ DOMAIN ObjectsIn(pre.store, bucket) # {}
    /\ status = "ok"

\* C10: when an upload of copy_dir_to_s3_dir fails, the call ends there with
\* the provider's error: nothing is uploaded after the failure, and every
\* object uploaded before it is still in the bucket
C10_UploadFailureStopsTheCall ==
    \A i \in Events("upload_failed") :
        /\ i = Len(log)
        /\ pc = "done"
        /\ status = ProviderError
        /\ todo = <<>>
        /\ \A j \in Events("upload") :
             /\ log[j].key \in DOMAIN Objects(bucket)
             /\ Objects(bucket)[log[j].key] = fs[log[j].path]
        /\ \A k \in DOMAIN ObjectsIn(pre.store, bucket) : k \in DOMAIN Objects(bucket)

\* C10 witness: the second upload of a directory has failed after the first
\* one went through
C10_Witness ==
    /\ Called("copy_dir_to_s3_dir")
    /\ status = ProviderError
    /\ Events("upload_failed") # {}
    /\ Cardinality(Events("upload")) = 1
    /\ Cardinality(FilesUnder(pre.fs, args.local_name)) = 2

\* C11: in copy_s3_dir_to_dir, a download issued for a listed key that another
\* actor has deleted from the bucket ends the call at once with the provider's
\* error (the call does not go on and does not return normally), the request
\* for that key is the last one made, and the step writes no file: every
\* regular file present afterwards was there before, with the same content
DeletedBeforeDownload ==
    /\ pc = "s3_dir_loop"
    /\ todo # <<>>
    /\ Head(todo) \in DOMAIN ObjectsIn(pre.store, bucket)
    /\ Head(todo) \notin DOMAIN Objects(bucket)
    /\ log' # log

DeletedKeyRaises ==
    DeletedBeforeDownload =>
        /\ pc' = "done"
        /\ status' = ProviderError
        /\ Len(log') = Len(log) + 1
        /\ log'[Len(log')].ev = "download"
        /\ log'[Len(log')].key = Head(todo)
        /\ \A q \in DOMAIN fs' :
              fs'[q] # DIR => q \in DOMAIN fs /\ fs[q] = fs'[q]

C11_DeletedKeyRaises == [][DeletedKeyRaises]_vars

\* a call has ended with the provider's error on the download of a key that
\* was in the bucket when the call started and is no longer, and the key's
\* destination holds no file
C11_Witness ==
    /\ Called("copy_s3_dir_to_dir")
    /\ status = ProviderError
    /\ log # <<>>
    /\ log[Len(log)].ev = "download"
    /\ log[Len(log)].key \in DOMAIN ObjectsIn(pre.store, bucket)
    /\ log[Len(log)].key \notin DOMAIN Objects(bucket)
    /\ log[Len(log)].path \notin DOMAIN fs
    /\ \E i \in 1..(Len(log) - 1) : log[i].ev = "download"

\* C12: the pagination loop of list_s3_files terminates. Each re-query carries
\* the continuation token of the response received just before it; when that
\* response says IsTruncated false the next step is the normal return, with no
\* further request, and the function returns normally from no other response;
\* when it says IsTruncated true and has no NextContinuationToken the next step
\* ends the call with an error and makes no request; and a call that has
\* entered the loop always comes to an end
Requery == pc = "list_loop" /\ Len(log') = Len(log) + 1

TokenOfPrecedingResponse ==
    Requery =>
        /\ log'[Len(log')].ev = "list"
        /\ log'[Len(log')].token = response.NextContinuationToken
        /\ log'[Len(log')].token # NoToken
        /\ \A i \in 1..Len(log) : log[i].token # log'[Len(log')].token
        /\ response.IsTruncated

EndsAtFirstUntruncated ==
    /\ (pc = "list_loop" /\ ~response.IsTruncated) =>
          pc' = "done" /\ status' = "ok" /\ retval' = files /\ log' = log
    /\ (pc = "list_loop" /\ status' = "ok") => ~response.IsTruncated

MissingTokenRaises ==
    (/\ pc = "list_loop"
     /\ response.IsTruncated
     /\ response.NextContinuationToken = NoToken) =>
        pc' = "done" /\ status' \notin {"", "ok"} /\ log' = log

C12_PaginationTerminates ==
    /\ [][TokenOfPrecedingResponse /\ EndsAtFirstUntruncated /\ MissingTokenRaises]_vars
    /\ ((pc = "list_loop") ~> (pc = "done"))

\* a call that re-queried twice, with two different tokens, and then ended
\* with an error on a truncated response without a token
C12_Witness ==
    /\ Called("list_s3_files")
    /\ status \notin {"", "ok"}
    /\ response.IsTruncated
    /\ response.NextContinuationToken = NoToken
    /\ \E i, j \in Events("list") :
         i < j /\ log[i].token # NoToken /\ log[j].token # NoToken
         /\ log[i].token # log[j].token

\* C13: copy_s3_dir_to_dir issues no download for a listed key that ends with
\* "/", and the loop turn that meets such a key changes nothing on the local
\* file system, makes no request, raises nothing and goes on with the keys
\* that follow
EndsWithSeparator(k) == k # <<>> /\ k[Len(k)] = "/"

NoMarkerDownload ==
    op = "copy_s3_dir_to_dir" =>
        \A i \in Events("download") : ~EndsWithSeparator(log[i].key)

MarkerSkipped ==
    (pc = "s3_dir_loop" /\ todo # <<>> /\ EndsWithSeparator(Head(todo))) =>
        /\ fs' = fs
        /\ log' = log
        /\ pc' = "s3_dir_loop"
        /\ status' = ""
        /\ todo' = Tail(todo)

C13_MarkersAreSkipped == []NoMarkerDownload /\ [][MarkerSkipped]_vars

\* a call that returned normally on a listing with a marker key, after it
\* downloaded a key listed behind the marker; nothing stands at the place the
\* marker would map to
C13_Witness ==
    /\ Called("copy_s3_dir_to_dir")
    /\ status = "ok"
    /\ \E k \in DOMAIN ObjectsIn(pre.store, bucket) :
         /\ EndsWithSeparator(k)
         /\ StartsWith(k, args.s3_name)
         /\ \E i \in Events("download") :
              StrLess(k, log[i].key) /\ log[i].path \in DOMAIN fs
         /\ ExpectedLocal(args.local_name, args.s3_name, k) \notin DOMAIN pre.fs
         /\ ExpectedLocal(args.local_name, args.s3_name, k) \notin DOMAIN fs

\* C14: whatever the bucket holds and whatever the prefix, every file or
\* directory that copy_s3_dir_to_dir has created or overwritten so far lies
\* strictly inside the directory the call returns, L/last_segment(P) (that
\* directory itself may have been made); nothing else is modified
Modified == {q \in DOMAIN fs : q \notin DOMAIN pre.fs \/ pre.fs[q] # fs[q]}

StrictlyInside(q, dir_parts) ==
    /\ Len(q) > Len(dir_parts)
    /\ SubSeq(q, 1, Len(dir_parts)) = dir_parts

C14_WritesStayInsideReturnedDir ==
    op = "copy_s3_dir_to_dir" =>
        /\ DOMAIN pre.fs \subseteq DOMAIN fs
        /\ \A q \in Modified :
              \/ StrictlyInside(q, final.parts)
              \/ (q = final.parts /\ fs[q] = DIR)

====
